---- MODULE Spec2Model ----
(***************************************************************************)
(* A model of dgraph/cmd/bulk/loader.go: the RDF and JSON chunkers and the *)
(* map stage that drives them (file readers behind a throttle, one bounded *)
(* channel, a fixed pool of mappers).                                      *)
(*                                                                         *)
(* A byte stream is a sequence of one-character strings.  A bufio.Reader   *)
(* over a stream is the stream and the number of runes already consumed.   *)
(***************************************************************************)
EXTENDS Integers, Sequences, FiniteSets

(***************************************************************************)
(* Bounds of the model.                                                    *)
(***************************************************************************)
\* Largest number of top-level array elements of a generated JSON input.
MaxElems == 2
\* Largest length of the arbitrary (not necessarily well-formed) JSON inputs.
MaxRawLen == 4
\* Largest length of an RDF input stream.
MaxRdfLen == 5
\* Largest read-buffer size of the bufio.Reader (the source uses 1<<20).
MaxBuf == 3
\* Lines per RDF chunk (the source uses 1e5).
LineLimit == 2
\* Largest number of input files found by file discovery.
MaxFiles == 3
\* Longest run of runes after the ']' of an array.
MaxTail == 2
\* Largest opt.NumGoroutines.
MaxGoroutines == 2
\* Largest number of failed calls to the timestamp authority before it
\* answers.
MaxFailures == 3
\* Largest timestamp the authority hands out.
MaxTs == 2

(***************************************************************************)
(* Characters.                                                             *)
(***************************************************************************)
Min(a, b) == IF a <= b THEN a ELSE b

\* unicode.IsSpace, on the characters of the model.
IsSpace(c) == c \in {" ", "\n"}

JsonChars == {"[", "]", "{", "}", "\"", "\\", ",", " ", "a"}
RdfChars == {"a", "\n"}

\* Errors, as the values the source compares: nil, io.EOF,
\* bufio.ErrBufferFull, and the errors the chunkers construct.
ErrNil == "nil"
ErrEOF == "EOF"
ErrBufferFull == "ErrBufferFull"
ErrNotArray == "json file must contain array"
ErrMapStart == "expected json map start"
ErrMalformed == "malformed json"
ErrNotConsumed == "not all of json file consumed"

RECURSIVE Flatten(_)
\* The concatenation of a sequence of sequences.
Flatten(ss) == IF ss = <<>> THEN <<>> ELSE Head(ss) \o Flatten(Tail(ss))

(***************************************************************************)
(* bufio.Reader operations used by the chunkers.                           *)
(***************************************************************************)
\* The index (counted from pos) of the first delim among the next n bytes,
\* 0 when there is none.
RECURSIVE IndexByte(_, _, _, _, _)
IndexByte(inp, pos, n, delim, i) ==
    IF i > n THEN 0
    ELSE IF inp[pos + i] = delim THEN i
    ELSE IndexByte(inp, pos, n, delim, i + 1)

\* r.ReadSlice('\n') on a reader with a buffer of size bufSz.  The buffer
\* can hold the next bufSz bytes of the stream: a line ending within them
\* is returned; a stream ending within them is returned with io.EOF; else
\* the full buffer is returned with ErrBufferFull.  When exactly bufSz bytes
\* remain, the outcome depends on whether the underlying reader has already
\* reported its end (eofSeen).
ReadSlice(inp, pos, bufSz, eofSeen) ==
    LET rem == Len(inp) - pos
        i == IndexByte(inp, pos, Min(rem, bufSz), "\n", 1)
    IN  IF i > 0
        THEN [data |-> SubSeq(inp, pos + 1, pos + i), pos |-> pos + i, err |-> ErrNil]
        ELSE IF rem < bufSz \/ (rem = bufSz /\ eofSeen)
        THEN [data |-> SubSeq(inp, pos + 1, Len(inp)), pos |-> Len(inp), err |-> ErrEOF]
        ELSE [data |-> SubSeq(inp, pos + 1, pos + bufSz), pos |-> pos + bufSz,
              err |-> ErrBufferFull]

\* r.ReadString('\n'): everything up to and including the next newline, or
\* the rest of the stream with io.EOF.
ReadString(inp, pos) ==
    LET rem == Len(inp) - pos
        i == IndexByte(inp, pos, rem, "\n", 1)
    IN  IF i > 0
        THEN [data |-> SubSeq(inp, pos + 1, pos + i), pos |-> pos + i, err |-> ErrNil]
        ELSE [data |-> SubSeq(inp, pos + 1, Len(inp)), pos |-> Len(inp), err |-> ErrEOF]

(***************************************************************************)
(* rdfChunker.                                                             *)
(***************************************************************************)
rdfChunker_begin(inp, pos) == [pos |-> pos, err |-> ErrNil]

RECURSIVE rdfChunkLoop_NoRecover(_, _, _, _, _, _)
\* rdfChunkLoop as it would be without the ReadString that recovers the rest
\* of a line longer than the buffer: a full buffer counts as a line.
rdfChunkLoop_NoRecover(inp, pos, bufSz, eofSeen, batch, lineCount) ==
    IF lineCount >= LineLimit
    THEN [buf |-> batch, isNil |-> FALSE, pos |-> pos, err |-> ErrNil]
    ELSE LET s == ReadSlice(inp, pos, bufSz, eofSeen)
         IN  IF s.err = ErrEOF
             THEN [buf |-> batch \o s.data, isNil |-> FALSE, pos |-> s.pos, err |-> ErrEOF]
             ELSE rdfChunkLoop_NoRecover(inp, s.pos, bufSz, eofSeen, batch \o s.data,
                                         lineCount + 1)

RECURSIVE rdfChunkLoop(_, _, _, _, _, _)
\* The for loop of rdfChunker.chunk; batch is the buffer built so far.
rdfChunkLoop(inp, pos, bufSz, eofSeen, batch, lineCount) ==
    IF lineCount >= LineLimit
    THEN [buf |-> batch, isNil |-> FALSE, pos |-> pos, err |-> ErrNil]
    ELSE LET s == ReadSlice(inp, pos, bufSz, eofSeen)
         IN  IF s.err = ErrEOF
             THEN [buf |-> batch \o s.data, isNil |-> FALSE, pos |-> s.pos, err |-> ErrEOF]
             ELSE IF s.err = ErrBufferFull
             THEN LET t == ReadString(inp, s.pos)
                  IN  IF t.err = ErrEOF
                      THEN [buf |-> batch \o s.data \o t.data, isNil |-> FALSE,
                            pos |-> t.pos, err |-> ErrEOF]
                      ELSE rdfChunkLoop(inp, t.pos, bufSz, eofSeen,
                                        batch \o s.data \o t.data, lineCount + 1)
             ELSE rdfChunkLoop(inp, s.pos, bufSz, eofSeen, batch \o s.data,
                               lineCount + 1)

rdfChunker_chunk(inp, pos, bufSz, eofSeen) ==
    rdfChunkLoop(inp, pos, bufSz, eofSeen, <<>>, 0)

rdfChunker_end(inp, pos) == [pos |-> pos, err |-> ErrNil]

(***************************************************************************)
(* jsonChunker.                                                            *)
(***************************************************************************)
RECURSIVE slurpSpace(_, _)
\* Reads runes up to the first non-space one, which is unread.
slurpSpace(inp, pos) ==
    IF pos >= Len(inp) THEN [pos |-> pos, err |-> ErrEOF]
    ELSE IF IsSpace(inp[pos + 1]) THEN slurpSpace(inp, pos + 1)
    ELSE [pos |-> pos, err |-> ErrNil]

RECURSIVE slurpQuoted_NoEscape(_, _, _)
\* slurpQuoted as it would be without the backslash case: the string ends
\* at the first quote, escaped or not.
slurpQuoted_NoEscape(inp, pos, out) ==
    IF pos >= Len(inp) THEN [pos |-> pos, out |-> out, err |-> ErrEOF]
    ELSE LET ch == inp[pos + 1]
             out1 == Append(out, ch)
         IN  IF ch = "\""
             THEN [pos |-> pos + 1, out |-> out1, err |-> ErrNil]
             ELSE slurpQuoted_NoEscape(inp, pos + 1, out1)

RECURSIVE slurpQuoted(_, _, _)
\* Copies runes to out up to and including the closing quote; the rune
\* after a backslash is copied without being looked at.
slurpQuoted(inp, pos, out) ==
    IF pos >= Len(inp) THEN [pos |-> pos, out |-> out, err |-> ErrEOF]
    ELSE LET ch == inp[pos + 1]
             out1 == Append(out, ch)
         IN  IF ch = "\\"
             THEN IF pos + 1 >= Len(inp)
                  THEN [pos |-> pos + 1, out |-> out1, err |-> ErrEOF]
                  ELSE slurpQuoted(inp, pos + 2, Append(out1, inp[pos + 2]))
             ELSE IF ch = "\""
             THEN [pos |-> pos + 1, out |-> out1, err |-> ErrNil]
             ELSE slurpQuoted(inp, pos + 1, out1)

jsonChunker_begin(inp, pos) ==
    LET s == slurpSpace(inp, pos)
    IN  IF s.err # ErrNil THEN [pos |-> s.pos, err |-> s.err]
        ELSE IF inp[s.pos + 1] # "[" THEN [pos |-> s.pos + 1, err |-> ErrNotArray]
        ELSE [pos |-> s.pos + 1, err |-> ErrNil]

RECURSIVE jsonScanDepth(_, _, _, _)
\* The "for depth > 0" loop of jsonChunker.chunk.
jsonScanDepth(inp, pos, out, depth) ==
    IF depth <= 0 THEN [pos |-> pos, out |-> out, err |-> ErrNil]
    ELSE IF pos >= Len(inp) THEN [pos |-> pos, out |-> out, err |-> ErrMalformed]
    ELSE LET ch == inp[pos + 1]
             out1 == Append(out, ch)
         IN  IF ch = "{" THEN jsonScanDepth(inp, pos + 1, out1, depth + 1)
             ELSE IF ch = "}" THEN jsonScanDepth(inp, pos + 1, out1, depth - 1)
             ELSE IF ch = "\""
             THEN LET q == slurpQuoted(inp, pos + 1, out1)
                  IN  IF q.err # ErrNil
                      THEN [pos |-> q.pos, out |-> q.out, err |-> q.err]
                      ELSE jsonScanDepth(inp, q.pos, q.out, depth)
             ELSE jsonScanDepth(inp, pos + 1, out1, depth)

\* jsonAfterObject as it would be if the ',' were unread like any other rune.
jsonAfterObject_KeepComma(inp, pos, out) ==
    LET s == slurpSpace(inp, pos)
    IN  IF s.err # ErrNil
        THEN [buf |-> <<>>, isNil |-> TRUE, pos |-> s.pos, err |-> s.err]
        ELSE LET ch == inp[s.pos + 1]
             IN  IF ch = "]"
                 THEN [buf |-> out, isNil |-> FALSE, pos |-> s.pos + 1, err |-> ErrEOF]
                 ELSE [buf |-> out, isNil |-> FALSE, pos |-> s.pos, err |-> ErrNil]

\* What follows the object: ']' ends the array, ',' is consumed, any other
\* rune is unread.
jsonAfterObject(inp, pos, out) ==
    LET s == slurpSpace(inp, pos)
    IN  IF s.err # ErrNil
        THEN [buf |-> <<>>, isNil |-> TRUE, pos |-> s.pos, err |-> s.err]
        ELSE LET ch == inp[s.pos + 1]
             IN  IF ch = "]"
                 THEN [buf |-> out, isNil |-> FALSE, pos |-> s.pos + 1, err |-> ErrEOF]
                 ELSE IF ch = ","
                 THEN [buf |-> out, isNil |-> FALSE, pos |-> s.pos + 1, err |-> ErrNil]
                 ELSE [buf |-> out, isNil |-> FALSE, pos |-> s.pos, err |-> ErrNil]

\* jsonChunker_chunk as it would be if a ']' where an object is expected
\* were taken for the end of an array without elements.
jsonChunker_chunk_EmptyArrayOk(inp, pos) ==
    LET s == slurpSpace(inp, pos)
    IN  IF s.err # ErrNil
        THEN [buf |-> <<>>, isNil |-> FALSE, pos |-> s.pos, err |-> s.err]
        ELSE IF inp[s.pos + 1] = "]"
        THEN [buf |-> <<>>, isNil |-> FALSE, pos |-> s.pos + 1, err |-> ErrEOF]
        ELSE IF inp[s.pos + 1] # "{"
        THEN [buf |-> <<>>, isNil |-> TRUE, pos |-> s.pos + 1, err |-> ErrMapStart]
        ELSE LET d == jsonScanDepth(inp, s.pos + 1, <<"{">>, 1)
             IN  IF d.err # ErrNil
                 THEN [buf |-> <<>>, isNil |-> TRUE, pos |-> d.pos, err |-> d.err]
                 ELSE jsonAfterObject(inp, d.pos, d.out)

jsonChunker_chunk(inp, pos) ==
    LET s == slurpSpace(inp, pos)
    IN  IF s.err # ErrNil
        THEN [buf |-> <<>>, isNil |-> FALSE, pos |-> s.pos, err |-> s.err]
        ELSE IF inp[s.pos + 1] # "{"
        THEN [buf |-> <<>>, isNil |-> TRUE, pos |-> s.pos + 1, err |-> ErrMapStart]
        ELSE LET d == jsonScanDepth(inp, s.pos + 1, <<"{">>, 1)
             IN  IF d.err # ErrNil
                 THEN [buf |-> <<>>, isNil |-> TRUE, pos |-> d.pos, err |-> d.err]
                 ELSE jsonAfterObject(inp, d.pos, d.out)

\* jsonChunker_end as it would be if whatever follows the array were
\* ignored.
jsonChunker_end_Lenient(inp, pos) ==
    LET s == slurpSpace(inp, pos)
    IN  [pos |-> s.pos, err |-> ErrNil]

jsonChunker_end(inp, pos) ==
    LET s == slurpSpace(inp, pos)
    IN  IF s.err = ErrEOF THEN [pos |-> s.pos, err |-> ErrNil]
        ELSE [pos |-> s.pos, err |-> ErrNotConsumed]

(***************************************************************************)
(* newChunker: the chunker interface, dispatched on the input format.      *)
(***************************************************************************)
rdfInput == 0
jsonInput == 1

chunker_begin(fmt, inp, pos) ==
    IF fmt = rdfInput THEN rdfChunker_begin(inp, pos) ELSE jsonChunker_begin(inp, pos)

chunker_chunk(fmt, inp, pos, bufSz, eofSeen) ==
    IF fmt = rdfInput THEN rdfChunker_chunk(inp, pos, bufSz, eofSeen)
    ELSE jsonChunker_chunk(inp, pos)

chunker_end(fmt, inp, pos) ==
    IF fmt = rdfInput THEN rdfChunker_end(inp, pos) ELSE jsonChunker_end(inp, pos)

(***************************************************************************)
(* State.                                                                  *)
(***************************************************************************)
VARIABLES
    \* One chunker driven over one stream (begin, chunk..., end):
    cFmt,       \* input format of the stream
    cIn,        \* the stream
    cMeta,      \* how the stream was built: kind, elems, pad, bufSz, eofSeen
    cPos,       \* runes consumed from the reader
    cPc,        \* "begin", "chunk", "end", "done", "fatal"
    cCalls,     \* the results of the chunk calls so far, in order
    cErr,       \* the error that was fatal, or nil
    \* The map stage:
    loaderType, \* rdfInput or jsonInput
    files,      \* contents of the files found by findDataFiles
    numG,       \* opt.NumGoroutines
    opc,        \* where mapStage is
    nextFile,   \* index of the next file of the main map loop
    rd,         \* per file: the reader goroutine
    ch,         \* ld.readerChunkCh, the buffered chunks
    closed,     \* ld.readerChunkCh is closed
    thrCh,      \* thr: slots taken
    thrWg,      \* thr: goroutines not yet done
    mp,         \* per mapper: "idle", "recv", "exited", "nil"
    mapperWg,   \* mapperWg counter
    proc,       \* the process: "running", "exit1", "fatal", "panic"
    xidDB,      \* ld.xidDB: "none", "open", "closed"
    xids,       \* ld.xids: "nil", "set", "evicted"
    returned,   \* per file: the non-empty chunks its chunker returned
    pushed,     \* per file: the chunks sent on readerChunkCh
    pulled,     \* per file: the chunks received by mappers
    \* getWriteTimestamp:
    tsScript,   \* what the authority answers, call after call
    tsPc,       \* "off", "call", "sleep", "returned"
    tsClock,    \* seconds since getWriteTimestamp was entered
    tsStarts,   \* the time each attempt was started
    tsEnds,     \* the time each attempt came back
    tsResult    \* the value returned, 0 before the return

cvars == <<cFmt, cIn, cMeta, cPos, cPc, cCalls, cErr>>
pvars == <<loaderType, files, numG, opc, nextFile, rd, ch, closed, thrCh, thrWg,
           mp, mapperWg, proc, xidDB, xids, returned, pushed, pulled>>
tvars == <<tsScript, tsPc, tsClock, tsStarts, tsEnds, tsResult>>
vars == <<cFmt, cIn, cMeta, cPos, cPc, cCalls, cErr,
          loaderType, files, numG, opc, nextFile, rd, ch, closed, thrCh, thrWg,
          mp, mapperWg, proc, xidDB, xids, returned, pushed, pulled,
          tsScript, tsPc, tsClock, tsStarts, tsEnds, tsResult>>

(***************************************************************************)
(* Input streams.                                                          *)
(***************************************************************************)
RECURSIVE SeqsUpTo(_, _)
\* All sequences over S of length at most n.
SeqsUpTo(S, n) ==
    IF n = 0 THEN {<<>>}
    ELSE LET shorter == SeqsUpTo(S, n - 1)
         IN  shorter \cup {Append(s, c) : s \in shorter, c \in S}

Quoted(s) == <<"\"">> \o s \o <<"\"">>
Object(body) == <<"{">> \o body \o <<"}">>

\* Contents of quoted strings: plain, with braces, with escaped quotes and
\* escaped backslashes, with the array punctuation.
StrBodies ==
    { <<>>, <<"a">>, <<"{">>, <<"}">>, <<"]">>, <<",">>,
      <<"\\", "\"">>, <<"\\", "\\">>,
      <<"a", "}", "a">>, <<"a", "\\", "\"", "a">>,
      <<"}", "\\", "\"">>, <<"\\", "\"", "}">>, <<"\\", "\\", "}">>,
      <<"{", "{">> }

\* Top-level array elements: objects that are well-formed in brace and quote
\* nesting.
Elements ==
    { Object(Quoted(s)) : s \in StrBodies }
    \cup { Object(<<>>), Object(<<"a">>), Object(<<"a", ",", "a">>),
           Object(Object(<<>>)), Object(<<"[", "a", "]">>),
           Object(Object(Quoted(<<"}">>))),
           Object(Quoted(<<"a">>) \o <<"a">> \o Quoted(<<"}">>)),
           Object(Quoted(<<"{">>) \o Object(<<>>)) }

\* The elements used where a stream is damaged afterwards.
MutElements ==
    { Object(<<>>), Object(<<"a">>), Object(Object(<<>>)),
      Object(Quoted(<<"a">>)), Object(Quoted(<<"}">>)),
      Object(Quoted(<<"\\", "\"">>)) }

Pads == { <<>>, <<" ">>, <<"\n", " ">> }

RECURSIVE JoinElems(_, _)
\* e1 pad , pad e2 pad , ... en
JoinElems(es, pad) ==
    IF Len(es) = 1 THEN Head(es)
    ELSE Head(es) \o pad \o <<",">> \o pad \o JoinElems(Tail(es), pad)

\* The stream of a well-formed array of the elements es (at least one).
RenderArray(es, pad) ==
    pad \o <<"[">> \o pad \o JoinElems(es, pad) \o pad \o <<"]">> \o pad

\* Tokens other than ',' and ']' that a stream may carry after an object.
StrayTokens == {"a", "[", "{", "}", "\"", "\\"}

\* The array of es with the separator after element i replaced by the runes
\* toks (by nothing but padding when toks is empty).
RenderStray(es, i, toks, pad) ==
    <<"[">> \o JoinElems(SubSeq(es, 1, i), <<>>) \o pad \o toks \o pad
      \o (IF i < Len(es) THEN JoinElems(SubSeq(es, i + 1, Len(es)), <<>>) ELSE <<>>)
      \o <<"]">>

\* Runes a stream may carry after the ']' that closes its array.
TailChars == {" ", "a", "{", "]"}

NonEmptySeqs(S, n) == SeqsUpTo(S, n) \ {<<>>}

NoMeta == [kind |-> "none", elems |-> <<>>, pad |-> <<>>, at |-> 0, tok |-> "",
           bufSz |-> 0, eofSeen |-> FALSE]

(***************************************************************************)
(* One chunker driven the way a reader goroutine drives it, without the    *)
(* channel: begin, chunk until io.EOF, end; an error of any call is fatal. *)
(***************************************************************************)
\* getWriteTimestamp is not running.
TsOff ==
    /\ tsScript = <<>> /\ tsPc = "off" /\ tsClock = 0
    /\ tsStarts = <<>> /\ tsEnds = <<>> /\ tsResult = 0

PipelineIdle ==
    /\ loaderType = jsonInput /\ files = <<>> /\ numG = 1
    /\ opc = "off" /\ nextFile = 1
    /\ rd = <<>> /\ ch = <<>> /\ closed = FALSE
    /\ thrCh = 0 /\ thrWg = 0
    /\ mp = <<>> /\ mapperWg = 0
    /\ proc = "running" /\ xidDB = "none" /\ xids = "nil"
    /\ returned = <<>> /\ pushed = <<>> /\ pulled = <<>>

DriverStart ==
    /\ cPos = 0 /\ cPc = "begin" /\ cCalls = <<>> /\ cErr = ErrNil

InitJson ==
    /\ PipelineIdle
    /\ TsOff
    /\ DriverStart
    /\ cFmt = jsonInput
    /\ \/ \E es \in NonEmptySeqs(Elements, MaxElems), pad \in Pads :
            /\ cMeta = [NoMeta EXCEPT !.kind = "wellformed", !.elems = es, !.pad = pad]
            /\ cIn = RenderArray(es, pad)
       \/ \E s \in SeqsUpTo(JsonChars, MaxRawLen) :
            /\ cMeta = [NoMeta EXCEPT !.kind = "raw"]
            /\ cIn = s
       \/ \E es \in NonEmptySeqs(MutElements, MaxElems), pad \in Pads :
            \E n \in 0..(Len(RenderArray(es, pad)) - 1) :
                /\ cMeta = [NoMeta EXCEPT !.kind = "truncated", !.elems = es,
                                          !.pad = pad, !.at = n]
                /\ cIn = SubSeq(RenderArray(es, pad), 1, n)
       \/ \E es \in NonEmptySeqs(MutElements, MaxElems), pad \in Pads,
             tok \in StrayTokens :
            \E i \in 1..Len(es) :
                /\ cMeta = [NoMeta EXCEPT !.kind = "stray", !.elems = es, !.pad = pad,
                                          !.at = i, !.tok = tok]
                /\ cIn = RenderStray(es, i, <<tok>>, pad)
       \/ \E es \in NonEmptySeqs(MutElements, MaxElems), pad \in Pads :
            \E i \in 1..(Len(es) - 1) :
                /\ cMeta = [NoMeta EXCEPT !.kind = "nocomma", !.elems = es, !.pad = pad,
                                          !.at = i, !.tok = "{"]
                /\ cIn = RenderStray(es, i, <<>>, pad)
       \/ \E es \in NonEmptySeqs(MutElements, MaxElems), pad \in Pads,
             tail \in NonEmptySeqs(TailChars, MaxTail) :
            /\ cMeta = [NoMeta EXCEPT !.kind = "trailing", !.elems = es, !.pad = pad,
                                      !.at = Len(RenderArray(es, pad))]
            /\ cIn = RenderArray(es, pad) \o tail

InitRdf ==
    /\ PipelineIdle
    /\ TsOff
    /\ DriverStart
    /\ cFmt = rdfInput
    /\ \E s \in SeqsUpTo(RdfChars, MaxRdfLen), b \in 1..MaxBuf, e \in BOOLEAN :
        /\ cMeta = [NoMeta EXCEPT !.kind = "rdf", !.bufSz = b, !.eofSeen = e]
        /\ cIn = s

\* chunker.begin(r), x.Check of its error.
DriverBegin ==
    /\ cPc = "begin"
    /\ LET r == chunker_begin(cFmt, cIn, cPos)
       IN  /\ cPos' = r.pos
           /\ cErr' = r.err
           /\ cPc' = IF r.err # ErrNil THEN "fatal" ELSE "chunk"
    /\ UNCHANGED <<cFmt, cIn, cMeta, cCalls>>
    /\ UNCHANGED pvars
    /\ UNCHANGED tvars

\* One iteration of the for loop: chunker.chunk(r), then break on io.EOF
\* and x.Check of any other error.
DriverChunk ==
    /\ cPc = "chunk"
    /\ LET r == chunker_chunk(cFmt, cIn, cPos, cMeta.bufSz, cMeta.eofSeen)
       IN  /\ cPos' = r.pos
           /\ cCalls' = Append(cCalls, r)
           /\ cErr' = IF r.err = ErrEOF THEN ErrNil ELSE r.err
           /\ cPc' = IF r.err = ErrEOF THEN "end"
                     ELSE IF r.err # ErrNil THEN "fatal"
                     ELSE "chunk"
    /\ UNCHANGED <<cFmt, cIn, cMeta>>
    /\ UNCHANGED pvars
    /\ UNCHANGED tvars

\* chunker.end(r), x.Check of its error.
DriverEnd ==
    /\ cPc = "end"
    /\ LET r == chunker_end(cFmt, cIn, cPos)
       IN  /\ cPos' = r.pos
           /\ cErr' = r.err
           /\ cPc' = IF r.err # ErrNil THEN "fatal" ELSE "done"
    /\ UNCHANGED <<cFmt, cIn, cMeta, cCalls>>
    /\ UNCHANGED pvars
    /\ UNCHANGED tvars

NextChunker == DriverBegin \/ DriverChunk \/ DriverEnd

SpecJson == InitJson /\ [][NextChunker]_vars
SpecRdf == InitRdf /\ [][NextChunker]_vars

(***************************************************************************)
(* Collaborators of mapStage that loader.go calls: x.Check, x.Throttle and *)
(* mapper.run.                                                             *)
(***************************************************************************)
\* x.Check(err) ends the process when err is not nil.
x_Check(err) == err # ErrNil

\* thr.Start() returns when fewer than max slots are taken.
Throttle_CanStart(slots, max) == slots < max

\* thr.Wait() returns when every started goroutine has called Done.
Throttle_WaitReturns(wg) == wg = 0

\* m.run receives from readerChunkCh while there is a chunk, and returns
\* when the channel is closed and drained.
mapper_CanReceive(q) == q # <<>>
mapper_RunReturns(q, isClosed) == q = <<>> /\ isClosed

(***************************************************************************)
(* The map stage.                                                          *)
(***************************************************************************)
\* Contents of the input files of a run, per input format.
FileOneElement == <<"[", "{", "}", "]">>
FileTwoElements == <<"[", "{", "a", "}", ",", "{", "}", "]">>
\* The stream ends inside a quoted string.
FileUnterminatedString == <<"[", "{", "\"", "a">>
\* The stream ends before the brace depth returns to zero.
FileUnclosedObject == <<"[", "{", "a">>
\* An unexpected token after a record.
FileStrayToken == <<"[", "{", "}", "a", "{", "}", "]">>
\* The stream ends after a complete object.
FileNoClosingBracket == <<"[", "{", "}">>
\* Content after the closing bracket.
FileTrailingContent == <<"[", "{", "}", "]", "a">>
FileEmptyArray == <<"[", "]">>

FileOneLine == <<"a", "\n">>
\* Four lines, the second longer than a line of the first, the last without
\* its newline.
FileFourLines == <<"a", "\n", "a", "a", "\n", "a", "\n", "a">>
FileNoBytes == <<>>

\* The files a run is made of: any number of plain files, and at most one
\* file of the other kinds (damaged or empty) at any place among them.
PlainFiles(fmt) ==
    IF fmt = rdfInput THEN {FileOneLine, FileFourLines}
    ELSE {FileOneElement, FileTwoElements}

OddFiles(fmt) ==
    IF fmt = rdfInput THEN {FileNoBytes}
    ELSE {FileUnterminatedString, FileUnclosedObject, FileStrayToken,
          FileNoClosingBracket, FileTrailingContent, FileEmptyArray}

FileLists(fmt) ==
    SeqsUpTo(PlainFiles(fmt), MaxFiles)
    \cup { SubSeq(g, 1, i) \o <<b>> \o SubSeq(g, i + 1, Len(g)) :
               <<g, i, b>> \in { t \in SeqsUpTo(PlainFiles(fmt), MaxFiles - 1)
                                        \X (0..(MaxFiles - 1)) \X OddFiles(fmt) :
                                  t[2] <= Len(t[1]) } }

DriverOff ==
    /\ cFmt = jsonInput /\ cIn = <<>> /\ cMeta = NoMeta
    /\ cPos = 0 /\ cPc = "off" /\ cCalls = <<>> /\ cErr = ErrNil

IdleReader == [pc |-> "idle", pos |-> 0, buf |-> <<>>, isNil |-> FALSE, err |-> ErrNil,
               endCalled |-> FALSE]

Init ==
    /\ DriverOff
    /\ TsOff
    /\ loaderType \in {rdfInput, jsonInput}
    /\ numG \in 1..MaxGoroutines
    /\ files \in FileLists(loaderType)
    /\ opc = "start" /\ nextFile = 1
    /\ rd = [f \in 1..Len(files) |-> IdleReader]
    /\ ch = <<>> /\ closed = FALSE
    /\ thrCh = 0 /\ thrWg = 0
    /\ mp = [i \in 1..numG |-> "idle"]
    /\ mapperWg = 0
    /\ proc = "running" /\ xidDB = "none" /\ xids = "nil"
    /\ returned = [f \in 1..Len(files) |-> <<>>]
    /\ pushed = [f \in 1..Len(files) |-> <<>>]
    /\ pulled = [f \in 1..Len(files) |-> <<>>]

\* The read buffer of the readers of the map stage, and whether the file
\* reports its end together with its last bytes.
PipeBufSz == MaxBuf
PipeEofSeen == FALSE

\* mapStage, from its entry to xidmap.New: the identifier store is created
\* (x.Check ends the run when os.Mkdir or badger.Open fails).
OpenXidStore ==
    /\ proc = "running" /\ opc = "start"
    /\ \E e \in {ErrNil, "open failed"} :
        IF x_Check(e)
        THEN /\ proc' = "fatal"
             /\ UNCHANGED <<opc, xidDB, xids>>
        ELSE /\ xidDB' = "open" /\ xids' = "set"
             /\ opc' = "discover"
             /\ UNCHANGED proc
    /\ UNCHANGED <<loaderType, files, numG, nextFile, rd, ch, closed, thrCh, thrWg,
                   mp, mapperWg, returned, pushed, pulled>>
    /\ UNCHANGED cvars
    /\ UNCHANGED tvars

\* File discovery found nothing: os.Exit(1).
NoFilesExit ==
    /\ proc = "running" /\ opc = "discover"
    /\ Len(files) = 0
    /\ proc' = "exit1"
    /\ UNCHANGED <<loaderType, files, numG, opc, nextFile, rd, ch, closed, thrCh, thrWg,
                   mp, mapperWg, xidDB, xids, returned, pushed, pulled>>
    /\ UNCHANGED cvars
    /\ UNCHANGED tvars

\* StartMappers as it would be if the mappers were started before the
\* check for zero files.
StartMappers_BeforeCheck ==
    /\ proc = "running" /\ opc = "discover"
    /\ mapperWg = 0
    /\ mapperWg' = mapperWg + Len(mp)
    /\ mp' = [i \in DOMAIN mp |-> "recv"]
    /\ opc' = IF Len(files) # 0 THEN "loop" ELSE opc
    /\ UNCHANGED <<loaderType, files, numG, nextFile, rd, ch, closed, thrCh, thrWg,
                   proc, xidDB, xids, returned, pushed, pulled>>
    /\ UNCHANGED cvars
    /\ UNCHANGED tvars

\* File discovery found files: the mapper goroutines are started.
StartMappers ==
    /\ proc = "running" /\ opc = "discover"
    /\ Len(files) # 0
    /\ mapperWg' = mapperWg + Len(mp)
    /\ mp' = [i \in DOMAIN mp |-> "recv"]
    /\ opc' = "loop"
    /\ UNCHANGED <<loaderType, files, numG, nextFile, rd, ch, closed, thrCh, thrWg,
                   proc, xidDB, xids, returned, pushed, pulled>>
    /\ UNCHANGED cvars
    /\ UNCHANGED tvars

\* StartReader as it would be without thr.Start() holding the loop back.
StartReader_NoThrottle ==
    /\ proc = "running" /\ opc = "loop"
    /\ nextFile <= Len(files)
    /\ thrCh' = thrCh + 1
    /\ thrWg' = thrWg + 1
    /\ rd' = [rd EXCEPT ![nextFile].pc = "begin"]
    /\ nextFile' = nextFile + 1
    /\ UNCHANGED <<loaderType, files, numG, opc, ch, closed, mp, mapperWg, proc,
                   xidDB, xids, returned, pushed, pulled>>
    /\ UNCHANGED cvars
    /\ UNCHANGED tvars

\* One iteration of the main map loop: thr.Start(), then the reader
\* goroutine of the next file is started.
StartReader ==
    /\ proc = "running" /\ opc = "loop"
    /\ nextFile <= Len(files)
    /\ Throttle_CanStart(thrCh, numG)
    /\ thrCh' = thrCh + 1
    /\ thrWg' = thrWg + 1
    /\ rd' = [rd EXCEPT ![nextFile].pc = "begin"]
    /\ nextFile' = nextFile + 1
    /\ UNCHANGED <<loaderType, files, numG, opc, ch, closed, mp, mapperWg, proc,
                   xidDB, xids, returned, pushed, pulled>>
    /\ UNCHANGED cvars
    /\ UNCHANGED tvars

\* WaitReaders as it would be without thr.Wait(): the loop over the files
\* is followed by the close at once.
WaitReaders_NoWait ==
    /\ proc = "running" /\ opc = "loop"
    /\ nextFile > Len(files)
    /\ opc' = "close"
    /\ UNCHANGED <<loaderType, files, numG, nextFile, rd, ch, closed, thrCh, thrWg,
                   mp, mapperWg, proc, xidDB, xids, returned, pushed, pulled>>
    /\ UNCHANGED cvars
    /\ UNCHANGED tvars

\* thr.Wait() after the loop.
WaitReaders ==
    /\ proc = "running" /\ opc = "loop"
    /\ nextFile > Len(files)
    /\ Throttle_WaitReturns(thrWg)
    /\ opc' = "close"
    /\ UNCHANGED <<loaderType, files, numG, nextFile, rd, ch, closed, thrCh, thrWg,
                   mp, mapperWg, proc, xidDB, xids, returned, pushed, pulled>>
    /\ UNCHANGED cvars
    /\ UNCHANGED tvars

\* CloseQueue as it would be without the close: mapStage goes on to wait
\* for the mappers with the channel open.
CloseQueue_Forgotten ==
    /\ proc = "running" /\ opc = "close"
    /\ opc' = "mwait"
    /\ UNCHANGED <<loaderType, files, numG, nextFile, rd, ch, closed, thrCh, thrWg,
                   mp, mapperWg, proc, xidDB, xids, returned, pushed, pulled>>
    /\ UNCHANGED cvars
    /\ UNCHANGED tvars

\* close(ld.readerChunkCh); closing a closed channel panics.
CloseQueue ==
    /\ proc = "running" /\ opc = "close"
    /\ IF closed
       THEN proc' = "panic" /\ UNCHANGED <<closed, opc>>
       ELSE closed' = TRUE /\ opc' = "mwait" /\ UNCHANGED proc
    /\ UNCHANGED <<loaderType, files, numG, nextFile, rd, ch, thrCh, thrWg,
                   mp, mapperWg, xidDB, xids, returned, pushed, pulled>>
    /\ UNCHANGED cvars
    /\ UNCHANGED tvars

\* WaitMappers as it would be without the wait: the teardown starts while
\* mappers may still be receiving.
WaitMappers_NoWait ==
    /\ proc = "running" /\ opc = "mwait"
    /\ opc' = "teardown"
    /\ UNCHANGED <<loaderType, files, numG, nextFile, rd, ch, closed, thrCh, thrWg,
                   mp, mapperWg, proc, xidDB, xids, returned, pushed, pulled>>
    /\ UNCHANGED cvars
    /\ UNCHANGED tvars

\* mapperWg.Wait().
WaitMappers ==
    /\ proc = "running" /\ opc = "mwait"
    /\ mapperWg = 0
    /\ opc' = "teardown"
    /\ UNCHANGED <<loaderType, files, numG, nextFile, rd, ch, closed, thrCh, thrWg,
                   mp, mapperWg, proc, xidDB, xids, returned, pushed, pulled>>
    /\ UNCHANGED cvars
    /\ UNCHANGED tvars

\* The teardown: the mappers are dropped and the store is evicted; then the
\* store is closed and ld.xids is set to nil, or x.Check ends the run when
\* Close fails, with the mappers already dropped and the store evicted.
Teardown ==
    /\ proc = "running" /\ opc = "teardown"
    /\ mp' = [i \in DOMAIN mp |-> "nil"]
    /\ \E e \in {ErrNil, "close failed"} :
        IF x_Check(e)
        THEN /\ proc' = "fatal"
             /\ xids' = "evicted"
             /\ UNCHANGED <<opc, xidDB>>
        ELSE /\ xidDB' = "closed" /\ xids' = "nil"
             /\ opc' = "done"
             /\ UNCHANGED proc
    /\ UNCHANGED <<loaderType, files, numG, nextFile, rd, ch, closed, thrCh, thrWg,
                   mapperWg, returned, pushed, pulled>>
    /\ UNCHANGED cvars
    /\ UNCHANGED tvars

\* Where a reader goes after a chunk call, by the error of the call: to end
\* on io.EOF, to the next chunk call on nil; any other error is fatal.
AfterChunk(err) == IF err = ErrEOF THEN "end" ELSE "chunk"

\* Reader goroutine of file f: x.Check(chunker.begin(r)).
ReaderBegin(f) ==
    /\ f \in DOMAIN rd
    /\ proc = "running" /\ rd[f].pc = "begin"
    /\ LET r == chunker_begin(loaderType, files[f], rd[f].pos)
       IN  IF x_Check(r.err)
           THEN /\ proc' = "fatal"
                /\ rd' = [rd EXCEPT ![f].pos = r.pos, ![f].err = r.err]
           ELSE /\ rd' = [rd EXCEPT ![f].pos = r.pos, ![f].pc = "chunk"]
                /\ UNCHANGED proc
    /\ UNCHANGED <<loaderType, files, numG, opc, nextFile, ch, closed, thrCh, thrWg,
                   mp, mapperWg, xidDB, xids, returned, pushed, pulled>>
    /\ UNCHANGED cvars
    /\ UNCHANGED tvars

\* ReaderChunk as it would be if the loop looked at the error before the
\* chunk: the chunk returned together with io.EOF is not sent.
ReaderChunk_ErrorFirst(f) ==
    /\ f \in DOMAIN rd
    /\ proc = "running" /\ rd[f].pc = "chunk"
    /\ LET r == chunker_chunk(loaderType, files[f], rd[f].pos, PipeBufSz, PipeEofSeen)
           nonEmpty == ~r.isNil /\ Len(r.buf) > 0
       IN  /\ returned' = IF nonEmpty THEN [returned EXCEPT ![f] = Append(@, r.buf)]
                          ELSE returned
           /\ IF nonEmpty /\ r.err = ErrNil
              THEN /\ rd' = [rd EXCEPT ![f] = [@ EXCEPT !.pc = "push", !.pos = r.pos,
                                              !.buf = r.buf, !.isNil = r.isNil,
                                              !.err = r.err]]
                   /\ UNCHANGED proc
              ELSE IF r.err # ErrEOF /\ x_Check(r.err)
              THEN /\ proc' = "fatal"
                   /\ rd' = [rd EXCEPT ![f].pos = r.pos, ![f].err = r.err]
              ELSE /\ rd' = [rd EXCEPT ![f] = [@ EXCEPT !.pc = AfterChunk(r.err),
                                              !.pos = r.pos, !.buf = <<>>,
                                              !.isNil = r.isNil, !.err = r.err]]
                   /\ UNCHANGED proc
    /\ UNCHANGED <<loaderType, files, numG, opc, nextFile, ch, closed, thrCh, thrWg,
                   mp, mapperWg, xidDB, xids, pushed, pulled>>
    /\ UNCHANGED cvars
    /\ UNCHANGED tvars

\* Reader goroutine of file f: chunker.chunk(r).  A non-empty chunk is to be
\* sent next; without one the error of the call is looked at right away.
ReaderChunk(f) ==
    /\ f \in DOMAIN rd
    /\ proc = "running" /\ rd[f].pc = "chunk"
    /\ LET r == chunker_chunk(loaderType, files[f], rd[f].pos, PipeBufSz, PipeEofSeen)
           nonEmpty == ~r.isNil /\ Len(r.buf) > 0
       IN  /\ returned' = IF nonEmpty THEN [returned EXCEPT ![f] = Append(@, r.buf)]
                          ELSE returned
           /\ IF nonEmpty
              THEN /\ rd' = [rd EXCEPT ![f] = [@ EXCEPT !.pc = "push", !.pos = r.pos,
                                              !.buf = r.buf, !.isNil = r.isNil,
                                              !.err = r.err]]
                   /\ UNCHANGED proc
              ELSE IF r.err # ErrEOF /\ x_Check(r.err)
              THEN /\ proc' = "fatal"
                   /\ rd' = [rd EXCEPT ![f].pos = r.pos, ![f].err = r.err]
              ELSE /\ rd' = [rd EXCEPT ![f] = [@ EXCEPT !.pc = AfterChunk(r.err),
                                              !.pos = r.pos, !.buf = <<>>,
                                              !.isNil = r.isNil, !.err = r.err]]
                   /\ UNCHANGED proc
    /\ UNCHANGED <<loaderType, files, numG, opc, nextFile, ch, closed, thrCh, thrWg,
                   mp, mapperWg, xidDB, xids, pushed, pulled>>
    /\ UNCHANGED cvars
    /\ UNCHANGED tvars

\* ReaderPush as it would be if the send never waited for room in the
\* channel.
ReaderPush_NoWait(f) ==
    /\ f \in DOMAIN rd
    /\ proc = "running" /\ rd[f].pc = "push"
    /\ IF closed
       THEN /\ proc' = "panic"
            /\ UNCHANGED <<rd, ch, pushed>>
       ELSE /\ ch' = Append(ch, [file |-> f, buf |-> rd[f].buf])
            /\ pushed' = [pushed EXCEPT ![f] = Append(@, rd[f].buf)]
            /\ IF rd[f].err # ErrEOF /\ x_Check(rd[f].err)
               THEN /\ proc' = "fatal"
                    /\ UNCHANGED rd
               ELSE /\ rd' = [rd EXCEPT ![f].pc = AfterChunk(rd[f].err), ![f].buf = <<>>]
                    /\ UNCHANGED proc
    /\ UNCHANGED <<loaderType, files, numG, opc, nextFile, closed, thrCh, thrWg,
                   mp, mapperWg, xidDB, xids, returned, pulled>>
    /\ UNCHANGED cvars
    /\ UNCHANGED tvars

\* Reader goroutine of file f: ld.readerChunkCh <- chunkBuf, which waits
\* while the channel is full and panics on a closed channel; then the error
\* of the chunk call is looked at.
ReaderPush(f) ==
    /\ f \in DOMAIN rd
    /\ proc = "running" /\ rd[f].pc = "push"
    /\ closed \/ Len(ch) < numG
    /\ IF closed
       THEN /\ proc' = "panic"
            /\ UNCHANGED <<rd, ch, pushed>>
       ELSE /\ ch' = Append(ch, [file |-> f, buf |-> rd[f].buf])
            /\ pushed' = [pushed EXCEPT ![f] = Append(@, rd[f].buf)]
            /\ IF rd[f].err # ErrEOF /\ x_Check(rd[f].err)
               THEN /\ proc' = "fatal"
                    /\ UNCHANGED rd
               ELSE /\ rd' = [rd EXCEPT ![f].pc = AfterChunk(rd[f].err), ![f].buf = <<>>]
                    /\ UNCHANGED proc
    /\ UNCHANGED <<loaderType, files, numG, opc, nextFile, closed, thrCh, thrWg,
                   mp, mapperWg, xidDB, xids, returned, pulled>>
    /\ UNCHANGED cvars
    /\ UNCHANGED tvars

\* Reader goroutine of file f: x.Check(chunker.end(r)).
ReaderEnd(f) ==
    /\ f \in DOMAIN rd
    /\ proc = "running" /\ rd[f].pc = "end"
    /\ LET r == chunker_end(loaderType, files[f], rd[f].pos)
       IN  IF x_Check(r.err)
           THEN /\ proc' = "fatal"
                /\ rd' = [rd EXCEPT ![f].pos = r.pos, ![f].err = r.err,
                                    ![f].endCalled = TRUE]
           ELSE /\ rd' = [rd EXCEPT ![f].pos = r.pos, ![f].pc = "ended",
                                    ![f].endCalled = TRUE]
                /\ UNCHANGED proc
    /\ UNCHANGED <<loaderType, files, numG, opc, nextFile, ch, closed, thrCh, thrWg,
                   mp, mapperWg, xidDB, xids, returned, pushed, pulled>>
    /\ UNCHANGED cvars
    /\ UNCHANGED tvars

\* Reader goroutine of file f returns: the deferred thr.Done() runs.
ReaderDone(f) ==
    /\ f \in DOMAIN rd
    /\ proc = "running" /\ rd[f].pc = "ended"
    /\ thrCh' = thrCh - 1
    /\ thrWg' = thrWg - 1
    /\ rd' = [rd EXCEPT ![f].pc = "finished"]
    /\ UNCHANGED <<loaderType, files, numG, opc, nextFile, ch, closed,
                   mp, mapperWg, proc, xidDB, xids, returned, pushed, pulled>>
    /\ UNCHANGED cvars
    /\ UNCHANGED tvars

\* Mapper i receives the chunk at the head of the channel, maps it, and
\* is back at the channel.
MapperReceive(i) ==
    /\ i \in DOMAIN mp
    /\ proc = "running" /\ mp[i] = "recv"
    /\ mapper_CanReceive(ch)
    /\ pulled' = [pulled EXCEPT ![Head(ch).file] = Append(@, Head(ch).buf)]
    /\ ch' = Tail(ch)
    /\ UNCHANGED <<loaderType, files, numG, opc, nextFile, rd, closed, thrCh, thrWg,
                   mp, mapperWg, proc, xidDB, xids, returned, pushed>>
    /\ UNCHANGED cvars
    /\ UNCHANGED tvars

\* MapperExit as it would be if a mapper took an empty channel for the end
\* of the input.
MapperExit_OnEmpty(i) ==
    /\ i \in DOMAIN mp
    /\ proc = "running" /\ mp[i] = "recv"
    /\ ch = <<>>
    /\ mp' = [mp EXCEPT ![i] = "exited"]
    /\ mapperWg' = mapperWg - 1
    /\ UNCHANGED <<loaderType, files, numG, opc, nextFile, rd, ch, closed, thrCh, thrWg,
                   proc, xidDB, xids, returned, pushed, pulled>>
    /\ UNCHANGED cvars
    /\ UNCHANGED tvars

\* m.run of mapper i returns; its goroutine calls mapperWg.Done().
MapperExit(i) ==
    /\ i \in DOMAIN mp
    /\ proc = "running" /\ mp[i] = "recv"
    /\ mapper_RunReturns(ch, closed)
    /\ mp' = [mp EXCEPT ![i] = "exited"]
    /\ mapperWg' = mapperWg - 1
    /\ UNCHANGED <<loaderType, files, numG, opc, nextFile, rd, ch, closed, thrCh, thrWg,
                   proc, xidDB, xids, returned, pushed, pulled>>
    /\ UNCHANGED cvars
    /\ UNCHANGED tvars

Orchestrator ==
    \/ OpenXidStore \/ NoFilesExit \/ StartMappers \/ StartReader
    \/ WaitReaders \/ CloseQueue \/ WaitMappers \/ Teardown

Reader(f) ==
    \/ ReaderBegin(f) \/ ReaderChunk(f) \/ ReaderPush(f) \/ ReaderEnd(f) \/ ReaderDone(f)

Mapper(i) == MapperReceive(i) \/ MapperExit(i)

Next ==
    \/ Orchestrator
    \/ \E f \in 1..MaxFiles : Reader(f)
    \/ \E i \in 1..MaxGoroutines : Mapper(i)

Spec == Init /\ [][Next]_vars

\* The Go scheduler runs every goroutine that can take a step.
Fairness ==
    /\ WF_vars(Orchestrator)
    /\ \A f \in 1..MaxFiles : WF_vars(Reader(f))
    /\ \A i \in 1..MaxGoroutines : WF_vars(Mapper(i))

FairSpec == Init /\ [][Next]_vars /\ Fairness

(***************************************************************************)
(* getWriteTimestamp.                                                      *)
(***************************************************************************)
\* An answer of the authority to client.Timestamps: an error, or a block of
\* timestamps starting at val.
TsFailure == [err |-> TRUE, val |-> 0]
TsAnswers == {TsFailure} \cup {[err |-> FALSE, val |-> v] : v \in 1..MaxTs}

\* What the authority answers: it fails at most MaxFailures times before it
\* answers; tsScript[i] is its answer to call number i.
TsScripts ==
    { s \in NonEmptySeqs(TsAnswers, MaxFailures + 1) :
        \E i \in 1..Len(s) : ~s[i].err }

\* The per-attempt context timeout and the time.Sleep between attempts, in
\* seconds.
TsTimeout == 1
TsBackoff == 1

InitTs ==
    /\ PipelineIdle
    /\ DriverOff
    /\ tsScript \in TsScripts
    /\ tsPc = "call" /\ tsClock = 0
    /\ tsStarts = <<>> /\ tsEnds = <<>> /\ tsResult = 0

\* TsAttempt as it would be if an error ended the loop: the failure is
\* handed to the caller as the zero timestamp.
TsAttempt_GiveUp ==
    /\ tsPc = "call"
    /\ \E d \in 0..TsTimeout :
        LET ans == tsScript[Len(tsStarts) + 1]
        IN  /\ tsStarts' = Append(tsStarts, tsClock)
            /\ tsClock' = tsClock + d
            /\ tsEnds' = Append(tsEnds, tsClock + d)
            /\ tsResult' = ans.val
            /\ tsPc' = "returned"
    /\ UNCHANGED tsScript
    /\ UNCHANGED cvars
    /\ UNCHANGED pvars

\* One pass of the loop up to the test of err: the call to
\* client.Timestamps under a context that times out after a second; on
\* err == nil the start id of the answer is returned.
TsAttempt ==
    /\ tsPc = "call"
    /\ \E d \in 0..TsTimeout :
        LET ans == tsScript[Len(tsStarts) + 1]
        IN  /\ tsStarts' = Append(tsStarts, tsClock)
            /\ tsClock' = tsClock + d
            /\ tsEnds' = Append(tsEnds, tsClock + d)
            /\ IF ~ans.err
               THEN tsResult' = ans.val /\ tsPc' = "returned"
               ELSE tsResult' = tsResult /\ tsPc' = "sleep"
    /\ UNCHANGED tsScript
    /\ UNCHANGED cvars
    /\ UNCHANGED pvars

\* The rest of the pass after a failure: the error is printed and
\* time.Sleep(time.Second) lasts a second or, by a late wake-up, longer.
TsSleep ==
    /\ tsPc = "sleep"
    /\ \E late \in 0..1 : tsClock' = tsClock + TsBackoff + late
    /\ tsPc' = "call"
    /\ UNCHANGED <<tsScript, tsStarts, tsEnds, tsResult>>
    /\ UNCHANGED cvars
    /\ UNCHANGED pvars

NextTs == TsAttempt \/ TsSleep

SpecTs == InitTs /\ [][NextTs]_vars

(***************************************************************************)
(* Properties of the chunkers.                                             *)
(***************************************************************************)
\* Brace nesting of a rune sequence, by a three-mode scan ("code", inside a
\* string, after a backslash inside a string): the index at which the
\* nesting opened by the braces outside strings first returns to zero, 0
\* when it never does.
RECURSIVE NestingCloses(_, _, _, _)
NestingCloses(s, i, depth, mode) ==
    IF i > Len(s) THEN 0
    ELSE IF mode = "esc" THEN NestingCloses(s, i + 1, depth, "str")
    ELSE IF mode = "str"
    THEN NestingCloses(s, i + 1, depth,
                       IF s[i] = "\\" THEN "esc" ELSE IF s[i] = "\"" THEN "code" ELSE "str")
    ELSE IF s[i] = "{" THEN NestingCloses(s, i + 1, depth + 1, "code")
    ELSE IF s[i] = "}"
    THEN IF depth = 1 THEN i ELSE NestingCloses(s, i + 1, depth - 1, "code")
    ELSE IF s[i] = "\"" THEN NestingCloses(s, i + 1, depth, "str")
    ELSE NestingCloses(s, i + 1, depth, "code")

\* s is one whole object: it opens with '{' and its nesting closes at its
\* last rune and not before.
IsWholeObject(s) ==
    /\ Len(s) >= 2
    /\ s[1] = "{"
    /\ NestingCloses(s, 1, 0, "code") = Len(s)

\* C5: for a well-formed array of n >= 1 objects, the i-th chunk call
\* returns exactly the i-th element; the calls before the n-th return no
\* error and the n-th returns io.EOF; no call fails, end succeeds, and the
\* run of begin, chunk..., end finishes with the whole stream consumed.
C5_OneChunkPerElement ==
    (cFmt = jsonInput /\ cMeta.kind = "wellformed") =>
        LET es == cMeta.elems
            n == Len(es)
        IN  /\ cPc # "fatal"
            /\ Len(cCalls) <= n
            /\ \A i \in 1..Len(cCalls) :
                /\ ~cCalls[i].isNil
                /\ cCalls[i].buf = es[i]
                /\ cCalls[i].err = (IF i = n THEN ErrEOF ELSE ErrNil)
            /\ cPc = "chunk" => Len(cCalls) < n
            /\ cPc \in {"end", "done"} => Len(cCalls) = n
            /\ cPc = "done" => cPos = Len(cIn) /\ cErr = ErrNil

\* Witness of C5: a padded array of MaxElems elements, chunked to its end.
C5_Witness ==
    /\ cFmt = jsonInput /\ cMeta.kind = "wellformed"
    /\ cPc = "done"
    /\ Len(cMeta.elems) >= 2
    /\ cMeta.elems[1] # cMeta.elems[2]
    /\ cMeta.pad # <<>>
    /\ Len(cCalls) = Len(cMeta.elems)

\* C6: whatever the stream, a chunk that jsonChunker.chunk returns is one
\* whole object by the nesting of the braces outside its quoted strings: a
\* brace or an escaped quote inside a string neither ends the chunk early
\* nor lets it run on; and it is a contiguous piece of the stream ending
\* where the scan of the object stopped.
C6_QuotedBracesKeepDepth ==
    cFmt = jsonInput =>
        \A i \in 1..Len(cCalls) :
            (~cCalls[i].isNil /\ cCalls[i].buf # <<>>) =>
                /\ IsWholeObject(cCalls[i].buf)
                /\ cCalls[i].err \in {ErrNil, ErrEOF}
                /\ \E a \in 1..Len(cIn) :
                    /\ a + Len(cCalls[i].buf) - 1 <= cCalls[i].pos
                    /\ cCalls[i].buf = SubSeq(cIn, a, a + Len(cCalls[i].buf) - 1)

\* Witness of C6: the elements {"a}a"} and {"}\""} were returned whole.
C6_Witness ==
    /\ cFmt = jsonInput /\ cPc = "done"
    /\ Len(cCalls) = 2
    /\ cCalls[1].buf = Object(Quoted(<<"a", "}", "a">>))
    /\ cCalls[2].buf = Object(Quoted(<<"}", "\\", "\"">>))

\* The rune that follows object number cMeta.at in a damaged array.
StrayIsNext(r) ==
    /\ r.pos < Len(cIn)
    /\ cIn[r.pos + 1] = cMeta.tok

\* C7: when a complete object is followed by a token other than ',' or ']',
\* the chunk call returns the object with no error and leaves the token
\* unread, and the next chunk call reports a malformed-input error.
C7_StrayTokenFailsNextCall ==
    (cFmt = jsonInput /\ cMeta.kind \in {"stray", "nocomma"}) =>
        /\ Len(cCalls) >= cMeta.at =>
            /\ ~cCalls[cMeta.at].isNil
            /\ cCalls[cMeta.at].buf = cMeta.elems[cMeta.at]
            /\ cCalls[cMeta.at].err = ErrNil
            /\ StrayIsNext(cCalls[cMeta.at])
        /\ Len(cCalls) >= cMeta.at + 1 =>
            cCalls[cMeta.at + 1].err \notin {ErrNil, ErrEOF}

\* C9: the chunks returned so far, concatenated in order, are the part of
\* the stream consumed so far, and the whole stream once io.EOF has been
\* signalled; a chunk returned without io.EOF is not empty and ends with a
\* newline; no call fails.
C9_RdfChunksConcatenate ==
    cFmt = rdfInput =>
        /\ cPc # "fatal"
        /\ Flatten([i \in 1..Len(cCalls) |-> cCalls[i].buf]) = SubSeq(cIn, 1, cPos)
        /\ cPc \in {"end", "done"} => cPos = Len(cIn)
        /\ \A i \in 1..Len(cCalls) :
            /\ ~cCalls[i].isNil
            /\ cCalls[i].err = ErrNil =>
                /\ cCalls[i].buf # <<>>
                /\ cCalls[i].buf[Len(cCalls[i].buf)] = "\n"

\* Witness of C9: a stream whose first line is longer than the read buffer,
\* chunked to its end in more than one chunk.
C9_Witness ==
    /\ cFmt = rdfInput /\ cPc = "done"
    /\ cIn = <<"a", "a", "\n", "a", "\n">>
    /\ cMeta.bufSz = 1
    /\ Len(cCalls) = 2
    /\ cCalls[1].err = ErrNil

(***************************************************************************)
(* Properties of the map stage.                                            *)
(***************************************************************************)
IsPrefix(a, b) == Len(a) <= Len(b) /\ a = SubSeq(b, 1, Len(a))

\* The chunks of file f that are in the channel, in order.
RECURSIVE InChannel(_, _)
InChannel(q, f) ==
    IF q = <<>> THEN <<>>
    ELSE IF Head(q).file = f THEN <<Head(q).buf>> \o InChannel(Tail(q), f)
    ELSE InChannel(Tail(q), f)

RECURSIVE SumLen(_, _)
\* Total number of chunks in the per-file logs 1..n of h.
SumLen(h, n) == IF n = 0 THEN 0 ELSE Len(h[n]) + SumLen(h, n - 1)

\* C1: every non-empty chunk a chunker returned is sent on the channel once
\* (at most the one being sent is outstanding, and none once the reader has
\* left its loop, so the chunk returned with io.EOF is sent too); every chunk
\* sent is in the channel or was received once; and when mapperWg.Wait has
\* returned, the chunks received are the chunks returned and the channel is
\* empty.
C1_EveryChunkPushedAndPulledOnce ==
    /\ \A f \in DOMAIN rd :
        /\ IsPrefix(pushed[f], returned[f])
        /\ Len(returned[f]) - Len(pushed[f]) = (IF rd[f].pc = "push" THEN 1 ELSE 0)
        /\ rd[f].pc = "push" => rd[f].buf = returned[f][Len(returned[f])]
        /\ pushed[f] = pulled[f] \o InChannel(ch, f)
    /\ opc \in {"teardown", "done"} =>
        /\ ch = <<>>
        /\ \A f \in DOMAIN rd : pulled[f] = returned[f]
        /\ \A i \in DOMAIN mp : mp[i] \in {"exited", "nil"}

\* Witness of C1: more files than mappers, one of them with two chunks, all
\* received at the end of the map stage.
C1_Witness ==
    /\ opc = "done"
    /\ Len(files) > numG
    /\ \E f \in DOMAIN rd : Len(pulled[f]) = 2
    /\ SumLen(pulled, Len(files)) > Len(files)

Terminated == proc # "running" \/ opc = "done"

\* C2: under fair scheduling of the orchestrator, the readers and the
\* mappers, the map stage always comes to its end: it completes its
\* teardown, unless the process is ended by a fatal error or the zero-file
\* exit.
C2_MapStageTerminates == <>Terminated

\* Witness of C2: the loop over the files waits for a throttle slot while a
\* reader waits to send on a full channel.
C2_Witness ==
    /\ proc = "running" /\ opc = "loop"
    /\ nextFile <= Len(files)
    /\ thrCh = numG
    /\ Len(ch) = numG
    /\ \E f \in DOMAIN rd : rd[f].pc = "push"

\* C3: the channel is closed only by mapStage after thr.Wait, when the
\* reader of every file has finished; nothing is sent on or closed a second
\* time on the closed channel (no panic); and mapStage waits for the mappers
\* only with the channel closed.
C3_CloseAfterAllReaders ==
    /\ closed =>
        /\ opc \in {"mwait", "teardown", "done"}
        /\ nextFile > Len(files)
        /\ thrWg = 0
        /\ \A f \in DOMAIN rd : rd[f].pc = "finished"
    /\ opc \in {"mwait", "teardown", "done"} => closed
    /\ proc # "panic"

\* Witness of C3: the channel is closed after three readers have sent
\* chunks, and mapStage waits for the mappers.
C3_Witness ==
    /\ closed /\ opc = "mwait"
    /\ Len(files) = 3
    /\ \A f \in DOMAIN rd : pushed[f] # <<>>

\* The readers that have been started and have not yet finished.
ActiveReaders == {f \in DOMAIN rd : rd[f].pc \notin {"idle", "finished"}}

\* C4: at most NumGoroutines readers are active, the throttle slots taken
\* are those of the active readers, and a reader that has given its slot
\* back has returned from its call to end.
C4_ThrottleBoundsReaders ==
    /\ Cardinality(ActiveReaders) <= numG
    /\ thrCh = Cardinality(ActiveReaders)
    /\ thrWg = thrCh
    /\ \A f \in DOMAIN rd : rd[f].pc = "finished" => rd[f].endCalled

\* Witness of C4: every slot is taken, a file waits for its reader to be
\* started, and a reader has finished before.
C4_Witness ==
    /\ proc = "running" /\ opc = "loop"
    /\ nextFile <= Len(files)
    /\ Cardinality(ActiveReaders) = numG
    /\ \E f \in DOMAIN rd : rd[f].pc = "finished"

\* The files with a malformed-input case of structural scanning.
MalformedFiles == {FileUnterminatedString, FileUnclosedObject, FileStrayToken}

\* C8: a reader whose file ends inside a quoted string, ends before the
\* brace depth returns to zero, or has an unexpected token after a record
\* never leaves its chunk loop as at a normal end of stream, and the map
\* stage never completes with such a file.
C8_MalformedInputIsFatal ==
    /\ \A f \in DOMAIN rd :
        files[f] \in MalformedFiles => rd[f].pc \notin {"end", "ended", "finished"}
    /\ opc = "done" => \A f \in DOMAIN rd : files[f] \notin MalformedFiles

\* C10: with zero input files mapStage never gets past the check: no mapper
\* and no reader is ever started, and the exit with status 1 is taken only
\* then.
C10_NoFilesExitsBeforeWorkers ==
    /\ Len(files) = 0 =>
        /\ opc \in {"start", "discover"}
        /\ \A i \in DOMAIN mp : mp[i] = "idle"
        /\ mapperWg = 0 /\ thrCh = 0 /\ thrWg = 0
    /\ proc = "exit1" =>
        /\ Len(files) = 0
        /\ opc = "discover"
        /\ \A i \in DOMAIN mp : mp[i] = "idle"

\* Witness of C10: the run has ended with status 1.
C10_Witness == proc = "exit1" /\ Len(files) = 0

\* Every rune of s is white space.
AllSpace(s) == \A i \in 1..Len(s) : IsSpace(s[i])

\* What was left of the stream when end was called: the runes after the
\* position the last chunk call left the reader at.
LeftForEnd == SubSeq(cIn, cCalls[Len(cCalls)].pos + 1, Len(cIn))

\* C16: jsonChunker.end succeeds exactly when all that is left of the
\* stream is white space: a run that finished had only white space left,
\* and when anything else is left after the chunk call that returned io.EOF,
\* end returns its error and the run is aborted.
C16_EndAcceptsOnlyWhitespace ==
    cFmt = jsonInput =>
        /\ cPc = "done" =>
            /\ cCalls # <<>> /\ cCalls[Len(cCalls)].err = ErrEOF
            /\ AllSpace(LeftForEnd)
            /\ cErr = ErrNil
        /\ (cPc = "fatal" /\ cErr = ErrNotConsumed) =>
            /\ cCalls # <<>> /\ cCalls[Len(cCalls)].err = ErrEOF
            /\ ~AllSpace(LeftForEnd)
        /\ (cPc = "fatal" /\ cCalls # <<>> /\ cCalls[Len(cCalls)].err = ErrEOF) =>
            /\ cErr = ErrNotConsumed
            /\ ~AllSpace(LeftForEnd)

\* Witness of C16: after the two objects of an array and its ']', white
\* space and then another rune follow; end fails and the run is aborted.
C16_Witness ==
    /\ cFmt = jsonInput /\ cMeta.kind = "trailing"
    /\ cPc = "fatal" /\ cErr = ErrNotConsumed
    /\ Len(cCalls) = 2
    /\ Len(LeftForEnd) = 2 /\ IsSpace(LeftForEnd[1]) /\ ~IsSpace(LeftForEnd[2])

\* The runes of s that are not white space.
NonSpace(s) == SelectSeq(s, LAMBDA c : ~IsSpace(c))

\* s is an array without elements: '[' and ']' and white space only.
IsEmptyArray(s) == NonSpace(s) = <<"[", "]">>

\* C19: for an array without elements begin succeeds and the first chunk
\* call returns no chunk and the error of a missing object start, which is
\* not io.EOF; the run is aborted there: no second call, no call of end, no
\* normal finish.
C19_EmptyArrayRejected ==
    (cFmt = jsonInput /\ IsEmptyArray(cIn)) =>
        /\ cPc \in {"begin", "chunk", "fatal"}
        /\ cPc = "chunk" => cCalls = <<>> /\ cErr = ErrNil
        /\ cPc = "fatal" => Len(cCalls) = 1
        /\ cCalls # <<>> =>
            /\ Len(cCalls) = 1
            /\ cCalls[1].isNil /\ cCalls[1].buf = <<>>
            /\ cCalls[1].err = ErrMapStart
            /\ cPc = "fatal" /\ cErr = ErrMapStart

\* Witness of C19: the first chunk call on "[ ]" has failed and the run is
\* aborted.
C19_Witness ==
    /\ cFmt = jsonInput /\ cIn = <<"[", " ", "]">>
    /\ cPc = "fatal" /\ Len(cCalls) = 1
    /\ cCalls[1].err = ErrMapStart

(***************************************************************************)
(* Properties of getWriteTimestamp.                                        *)
(***************************************************************************)
\* The number of failures before the first answer of the authority.
RECURSIVE FailuresBefore(_, _)
FailuresBefore(script, i) ==
    IF ~script[i].err THEN i - 1 ELSE FailuresBefore(script, i + 1)

\* C11: with an authority that fails k times and then answers, never more
\* than k+1 attempts are made; every attempt after a failed one starts at
\* least a second after that one came back; getWriteTimestamp returns only
\* after attempt k+1, and what it returns is the value of that answer, never
\* a failure.
C11_RetriesUntilAnswer ==
    tsPc # "off" =>
        LET k == FailuresBefore(tsScript, 1)
            n == Len(tsStarts)
        IN  /\ n <= k + 1
            /\ Len(tsEnds) = n
            /\ \A i \in 1..(n - 1) : tsStarts[i + 1] >= tsEnds[i] + 1
            /\ tsPc = "sleep" => n <= k
            /\ tsPc = "call" => n <= k
            /\ tsPc = "returned" =>
                /\ n = k + 1
                /\ tsResult = tsScript[k + 1].val
                /\ ~tsScript[k + 1].err
            /\ tsPc # "returned" => tsResult = 0

\* Witness of C11: two failures, then the third attempt returns the
\* authority's value.
C11_Witness ==
    /\ tsPc = "returned"
    /\ FailuresBefore(tsScript, 1) = 2
    /\ Len(tsStarts) = 3
    /\ tsResult = tsScript[3].val
    /\ tsResult = 2

(***************************************************************************)
(* Properties of the identifier store and of the exits of mapStage.        *)
(***************************************************************************)
\* No reader and no mapper goroutine of the map stage is running.
WorkersTerminated ==
    /\ \A f \in DOMAIN rd : rd[f].pc = "finished"
    /\ \A i \in DOMAIN mp : mp[i] \in {"exited", "nil"}
    /\ mapperWg = 0 /\ thrWg = 0

\* C12: the store does not exist before mapStage has begun; it is evicted
\* and closed only when every reader and every mapper has terminated; and
\* when mapStage has returned the store is closed, ld.xids is nil and no
\* goroutine of the map stage is left for the reduce stage to overlap.
C12_StoreNestedInMapStage ==
    /\ opc = "start" => xidDB = "none" /\ xids = "nil"
    /\ xidDB = "open" => opc # "start"
    /\ (xidDB = "closed" \/ xids = "evicted") => WorkersTerminated
    /\ xidDB = "closed" => opc = "done"
    /\ opc = "done" =>
        /\ xidDB = "closed" /\ xids = "nil"
        /\ WorkersTerminated
        /\ closed /\ ch = <<>>

\* Witness of C12: mapStage has returned with the store closed after two
\* readers and two mappers have moved chunks.
C12_Witness ==
    /\ opc = "done" /\ proc = "running"
    /\ xidDB = "closed" /\ xids = "nil"
    /\ Len(files) >= 2 /\ Len(mp) >= 2
    /\ \A f \in DOMAIN rd : pulled[f] # <<>>

\* The complete top-level objects of a JSON stream from character i on, in
\* order: each runs from a "{" to the "}" that closes it.
RECURSIVE TopObjects(_, _)
TopObjects(s, i) ==
    IF i > Len(s) THEN <<>>
    ELSE IF s[i] # "{" THEN TopObjects(s, i + 1)
    ELSE LET e == NestingCloses(s, i, 0, "code")
         IN  IF e = 0 THEN <<>>
             ELSE <<SubSeq(s, i, e)>> \o TopObjects(s, e + 1)

\* The reader of file f has pushed every record of its stream: for JSON the
\* chunks are the complete top-level objects of the file, for RDF the chunks
\* put end to end are the file.
AllRecordsPushed(f) ==
    IF loaderType = jsonInput
    THEN pushed[f] = TopObjects(files[f], 1)
    ELSE Flatten(pushed[f]) = files[f]

\* C13: a reader that has come through end without a fatal error has pushed
\* every record of its stream, and mapStage returns only with every record
\* of every stream pushed; a complete object followed by the end of the
\* stream is not dropped.
C13_NoPartialSuccess ==
    /\ \A f \in DOMAIN rd :
        rd[f].pc \in {"ended", "finished"} => AllRecordsPushed(f)
    /\ opc = "done" => \A f \in DOMAIN rd : AllRecordsPushed(f)

\* C17: on every exit from mapStage (the normal return, the exit for want
\* of input files, the abort on an error of begin, chunk or end in a
\* reader, the abort of the teardown) a store that was opened has been
\* closed.
C17_StoreReleasedOnEveryExit ==
    (proc # "running" \/ opc = "done") => xidDB # "open"

\* C18: the process does not terminate while a mapper is still at the
\* channel or while a reader other than the one whose error ends the run is
\* still running.
C18_NoExitWhileWorkersRun ==
    proc # "running" =>
        /\ \A i \in DOMAIN mp : mp[i] # "recv"
        /\ Cardinality(ActiveReaders) <= 1

(***************************************************************************)
(* Properties of the channel between the readers and the mappers.          *)
(***************************************************************************)
\* What a step does to the mappers: one terminates (and mapperWg goes down)
\* only from its receive, with the channel closed and empty; one that is at
\* an empty channel that is still open stays where it is.
MapperStepsOnClosure ==
    /\ \A i \in DOMAIN mp :
        /\ (mp[i] # "exited" /\ mp'[i] = "exited") =>
            /\ mp[i] = "recv"
            /\ closed /\ ch = <<>>
            /\ mapperWg' = mapperWg - 1
        /\ (mp[i] = "recv" /\ ch = <<>> /\ ~closed) => mp'[i] = "recv"
    /\ mapperWg' < mapperWg => closed /\ ch = <<>>
    /\ (\E i \in DOMAIN mp : mp'[i] = "exited") => closed'

\* C14: no mapper terminates and mapperWg is never counted down before the
\* channel is closed; a mapper terminates only when the channel is closed
\* and empty; at an empty channel that is still open a mapper waits.
C14_MappersEndOnlyOnClosure == [][MapperStepsOnClosure]_vars

\* Witness of C14: a mapper has terminated on the closed, drained channel
\* after the mappers have received the chunks of two files, while another
\* mapper has not yet seen the closure.
C14_Witness ==
    /\ closed /\ ch = <<>>
    /\ \E i, j \in DOMAIN mp : mp[i] = "exited" /\ mp[j] = "recv"
    /\ Len(files) >= 2
    /\ \A f \in DOMAIN rd : pulled[f] # <<>>

\* What a step does to the channel: it never holds more than NumGoroutines
\* chunks; a reader with a chunk to send on the full channel keeps the chunk
\* and reads nothing more; a mapper at the empty, open channel stays there;
\* and the channel shrinks by a receive only.
ChannelStepsBounded ==
    /\ Len(ch) <= numG /\ Len(ch') <= numG
    /\ \A f \in DOMAIN rd :
        (rd[f].pc = "push" /\ Len(ch) = numG /\ ~closed) =>
            /\ rd'[f] = rd[f]
            /\ rd[f].buf # <<>>
            /\ returned'[f] = returned[f] /\ pushed'[f] = pushed[f]
    /\ \A i \in DOMAIN mp :
        (mp[i] = "recv" /\ ch = <<>> /\ ~closed) =>
            /\ mp'[i] = "recv"
            /\ pulled' = pulled
    /\ Len(ch') > Len(ch) => Len(ch) < numG
    /\ Len(ch') < Len(ch) => \E f \in DOMAIN pulled : Len(pulled'[f]) = Len(pulled[f]) + 1

\* C15: the channel never holds more than NumGoroutines chunks; a reader
\* with a chunk to push while the channel is full waits, without dropping
\* the chunk and without reading further, until a mapper has removed a
\* chunk; a mapper that finds the channel empty and open waits.
C15_BoundedQueueBackpressure == [][ChannelStepsBounded]_vars

\* Witness of C15: every reader that is running holds a chunk it cannot
\* send, the channel being full, while mapStage has started all it may.
C15_Witness ==
    /\ proc = "running" /\ ~closed
    /\ Len(ch) = numG /\ numG = Len(mp)
    /\ Cardinality({f \in DOMAIN rd : rd[f].pc = "push"}) = numG
    /\ \A f \in DOMAIN rd : rd[f].pc = "push" => rd[f].buf # <<>>

====
